---------------------------- MODULE Spec2Model ----------------------------
(***************************************************************************)
(* GasStation of thanos-wallet: forgeTxAndParams (permit building) and     *)
(* estimate (fee estimation through a read-only signer).                   *)
(*                                                                         *)
(* An invocation of an async function is a process: its position (pc) is   *)
(* the await it is suspended on, its fields are the function's locals.     *)
(* One action is one await being answered (with a value or a throw): the   *)
(* call is logged, and the synchronous code up to the next await runs.     *)
(* The signer, the RPC node and the schema encoder are collaborators       *)
(* outside the repository: the node's state is the permit counter of each  *)
(* token contract, and every call of a collaborator may throw.             *)
(*                                                                         *)
(* RevealSecret and OperationHistory are components: the state of each is  *)
(* one record, an action is one event (a submit, an answer, a timer, a     *)
(* change of account, a fetch) together with the render and the effects    *)
(* that follow it. The clock of RevealSecret moves in ticks, and a timer   *)
(* that is due fires before the clock moves on.                            *)
(***************************************************************************)
EXTENDS Integers, Sequences, FiniteSets, TLC

\* ------------------------------------------------------------- bounds

\* Largest value the on-chain permit counter takes in the model.
MaxCounter == 1
\* Largest transfer amount, relayer fee and token id of a request.
MaxAmount == 2
MaxFee == 1
MaxTokenId == 1
\* Reveal requests one RevealSecret component makes, and the ticks of its clock.
MaxSubmits == 2
MaxTicks == 4
\* Longest list of pending operations and longest list of fetched operations.
MaxPndOps == 2
MaxFetched == 2
\* Largest suggestedFeeMutez the estimation service answers with.
MaxFeeMutez == 2

\* ------------------------------------------------------------ constants

RELAYER_ADDRESS == "tz1VSUr8wwNhLAzempoch5d6hLRiTh8Cjcjb"
ESTIMATOR_ADDRESS == "tz1VSUr8wwNhLAzempoch5d6hLRiTh8Cjcjb"
ESTIMATOR_PUBLIC_KEY == "edpkvGfYw3LyB1UcCahKQk4rF2tvbMUk8GFiTuMjL75uGXrpvKXhjn"

\* tokenId?: number -- the value of an absent token id (JS undefined).
Undefined == -1

\* The two invocations that may be in flight.
Procs == {1, 2}
Addresses == {"tz1Alice", "tz1Bob"}
PublicKeys == {"edpkAlice", "edpkBob"}
Contracts == {"KT1TokenA", "KT1TokenB"}
\* The nodes a toolkit can be bound to (tezos.rpc), the chain id each answers
\* getChainId with, and the chain each token contract lives on.
Nodes == {"rpc-main", "rpc-test"}
chainIdOf(rpc) == IF rpc = "rpc-main" THEN "NetMain" ELSE "NetTest"
nodeOf(contractAddress) == IF contractAddress = "KT1TokenA" THEN "rpc-main" ELSE "rpc-test"

\* ForgeTxParams: every request of the bounded universe.
ForgeTxParams ==
    [to : Addresses, tokenAddress : Contracts,
     tokenId : {Undefined} \cup (0..MaxTokenId),
     amount : 1..MaxAmount, relayerFee : 0..MaxFee]

\* The toolkit handed to forgeTxAndParams: the wallet provider's address
\* (tezos.wallet.pkh), the signer provider's key (tezos.signer) and the node
\* (tezos.rpc) are configured separately.
Toolkits == [pkh : Addresses, key : PublicKeys, rpc : Nodes]

\* A request is made with a toolkit bound to the node of its token contract.
Requests ==
    {r \in [tezos : Toolkits, params : ForgeTxParams] :
        r.tezos.rpc = nodeOf(r.params.tokenAddress)}

\* The requests of the concurrent specification: one transfer, made for either
\* token contract by Alice's account under either key or by Bob's account.
PlainRequests ==
    {r \in Requests :
        /\ r.params.to = "tz1Bob" /\ r.params.tokenId = 0
        /\ r.params.amount = MaxAmount /\ r.params.relayerFee = MaxFee
        /\ ~(r.tezos.pkh = "tz1Bob" /\ r.tezos.key = "edpkAlice")}

\* ------------------------------------------------------- pure functions

\* Number.prototype.toString / String(undefined): the decimal digits.
DigitChar(d) ==
    CASE d = 0 -> "0" [] d = 1 -> "1" [] d = 2 -> "2" [] d = 3 -> "3" [] d = 4 -> "4"
      [] d = 5 -> "5" [] d = 6 -> "6" [] d = 7 -> "7" [] d = 8 -> "8" [] OTHER -> "9"

RECURSIVE toString(_)
toString(n) ==
    IF n = Undefined THEN <<"undefined">>
    ELSE IF n < 10 THEN <<DigitChar(n)>>
    ELSE toString(n \div 10) \o <<DigitChar(n % 10)>>

\* formTransferParams whose fee leg carries the amount of the intended leg.
formTransferParams_feeIsAmount(from_, relayerAddress, params) ==
    LET intendedTx == [to_ |-> params.to, token_id |-> params.tokenId,
                       amount |-> params.amount]
        feeTx == [to_ |-> relayerAddress, token_id |-> params.tokenId,
                  amount |-> params.amount]
    IN  << << [from_ |-> from_, txs |-> <<intendedTx, feeTx>>] >> >>

\* formTransferParams with the two legs in the other order.
formTransferParams_swapped(from_, relayerAddress, params) ==
    LET intendedTx == [to_ |-> params.to, token_id |-> params.tokenId,
                       amount |-> params.amount]
        feeTx == [to_ |-> relayerAddress, token_id |-> params.tokenId,
                  amount |-> params.relayerFee]
    IN  << << [from_ |-> from_, txs |-> <<feeTx, intendedTx>>] >> >>

formTransferParams(from_, relayerAddress, params) ==
    LET intendedTx == [to_ |-> params.to, token_id |-> params.tokenId,
                       amount |-> params.amount]
        feeTx == [to_ |-> relayerAddress, token_id |-> params.tokenId,
                  amount |-> params.relayerFee]
        txList == << << [from_ |-> from_, txs |-> <<intendedTx, feeTx>>] >> >>
    IN  txList

\* contract.parameterSchema.Encode(entrypoint, ...parameters): the Michelson
\* value of the call, every number written as its decimal string.
EncodeTx(tx) ==
    <<"Pair", <<"string", tx.to_>>,
      <<"Pair", <<"int", toString(tx.token_id)>>, <<"int", toString(tx.amount)>> >> >>

EncodeTransfer(t) ==
    <<"Pair", <<"string", t.from_>>,
      <<"list", [i \in 1..Len(t.txs) |-> EncodeTx(t.txs[i])]>> >>

Encode(entrypoint, parameters) ==
    <<entrypoint, [a \in 1..Len(parameters) |->
        <<"list", [i \in 1..Len(parameters[a]) |-> EncodeTransfer(parameters[a][i])]>>]>>

\* The node packs a value only when every int of it is a number.
Packable(parameters) ==
    \A a \in 1..Len(parameters) : \A i \in 1..Len(parameters[a]) :
        \A j \in 1..Len(parameters[a][i].txs) :
            /\ parameters[a][i].txs[j].token_id # Undefined
            /\ parameters[a][i].txs[j].amount # Undefined

\* tezos.rpc.packData: the PACK serialisation, the 05 tag before the value.
packData(data) == [packed |-> <<"05", data>>]

\* blake.blake2bHex(hex2buf(bytes), null, 32): the digest of the bytes.
blake2bHex(bytes) == <<"blake2b", 32, bytes>>

\* getUnpackedUniques with the chain id before the contract address.
getUnpackedUniques_swapped(contractAddress, chainId, currentPermitCount, permitHash) ==
    [data |->
        <<"Pair",
          <<"Pair", <<"string", chainId>>, <<"string", contractAddress>> >>,
          <<"Pair", <<"int", toString(currentPermitCount)>>, <<"bytes", permitHash>> >> >>,
     type |->
        <<"pair", <<"pair", "address", "chain_id">>, <<"pair", "nat", "bytes">> >>]

getUnpackedUniques(contractAddress, chainId, currentPermitCount, permitHash) ==
    [data |->
        <<"Pair",
          <<"Pair", <<"string", contractAddress>>, <<"string", chainId>> >>,
          <<"Pair", <<"int", toString(currentPermitCount)>>, <<"bytes", permitHash>> >> >>,
     type |->
        <<"pair", <<"pair", "address", "chain_id">>, <<"pair", "nat", "bytes">> >>]

\* tezos.signer.sign(payload): the signature of the bytes under the key.
sign(key, payload) == [sig |-> <<"sig", key, payload>>]


\* ---------------------------------------------------------------- state

VARIABLES
    forge,           \* forge[p]: the invocation p of forgeTxAndParams
    permit_counter,  \* storage.permit_counter of each token contract, on chain
    est,             \* the invocation of estimate
    revealSecret,    \* the RevealSecret component: its state, its form, its timers
    history          \* the OperationHistory component: its lists and what it removed

vars == <<forge, permit_counter, est, revealSecret, history>>

\* The state of the GasStation, and the state of the two components.
gas == <<forge, permit_counter, est>>
ui == <<revealSecret, history>>

\* A local that holds no value yet.
Unset == <<>>

\* The frame of an invocation that has not been made. calls, thrown and
\* overlapped are what an observer of the invocation records: the calls made to
\* the collaborators, the error one of them threw, and whether another
\* invocation was in flight at some time during this one.
Idle ==
    [pc |-> "idle", tezos |-> Unset, params |-> Unset, transferParams |-> Unset,
     storage |-> Unset, signerKey |-> Unset, paramHash |-> Unset, chainId |-> Unset,
     unpacked |-> Unset, payload |-> Unset, result |-> Unset, err |-> Unset,
     thrown |-> Unset, calls |-> <<>>, overlapped |-> FALSE]

\* An invocation is in flight from its call to its return or rejection.
InFlight(f) == f.pc \notin {"idle", "done", "failed"}

\* The calls a test double of the collaborators records, in order.
SignerApis == {"wallet.pkh", "signer.publicKey", "signer.sign"}
RpcApis == {"wallet.at", "contract.storage", "rpc.packData", "rpc.getChainId"}

Logged(f, api, arg, ret) ==
    Append(f.calls, [api |-> api, arg |-> arg, ret |-> ret, ok |-> TRUE])

\* The error a collaborator throws.
ErrorOf(api) ==
    [name |-> IF api \in SignerApis THEN "SigningError"
              ELSE IF api = "schema.Encode" THEN "EncodingError" ELSE "RpcError",
     from |-> api]

\* A rejection that wraps the error thrown in a new one.
Rejection_wrapped(e) == [name |-> "GasStationError", from |-> e.from]

\* What the caller of forgeTxAndParams gets when an awaited call throws e:
\* no try/catch stands between the await and the caller.
Rejection(e) == e

\* An awaited call throws: the frame is left, the promise rejects.
Throws(p, api, arg) ==
    LET f == forge[p]
        e == ErrorOf(api)
    IN  forge' = [forge EXCEPT ![p] =
            [Idle EXCEPT !.pc = "failed", !.tezos = f.tezos, !.params = f.params,
                         !.overlapped = f.overlapped,
                         !.thrown = e, !.err = Rejection(e),
                         !.calls = Append(f.calls,
                            [api |-> api, arg |-> arg, ret |-> e, ok |-> FALSE])]]

\* ----------------------------------------------------- forgeTxAndParams

\* forgeTxAndParams(tezos, params) is called: it runs to await tezos.wallet.pkh().
Start(p, tezos, params) ==
    /\ forge[p].pc = "idle"
    /\ forge' = [q \in Procs |->
            IF q = p
            THEN [Idle EXCEPT !.pc = "pkh", !.tezos = tezos, !.params = params,
                              !.overlapped = \E o \in Procs \ {p} : InFlight(forge[o])]
            ELSE [forge[q] EXCEPT !.overlapped = @ \/ InFlight(forge[q])]]
    /\ UNCHANGED <<permit_counter, est, ui>>

Invoke(p) ==
    \E r \in PlainRequests : Start(p, r.tezos, r.params)

\* wallet.pkh() answers; formTransferParams builds the batch;
\* createPermitPayload runs to await tezos.wallet.at(contractAddress).
WalletPkh(p) ==
    LET f == forge[p] IN
    /\ f.pc = "pkh"
    /\ forge' = [forge EXCEPT ![p] =
            [f EXCEPT !.pc = "at",
                      !.transferParams =
                          formTransferParams(f.tezos.pkh, RELAYER_ADDRESS, f.params),
                      !.calls = Logged(f, "wallet.pkh", Unset, f.tezos.pkh)]]
    /\ UNCHANGED <<permit_counter, est, ui>>

WalletPkhThrows(p) ==
    /\ forge[p].pc = "pkh"
    /\ Throws(p, "wallet.pkh", Unset)
    /\ UNCHANGED <<permit_counter, est, ui>>

\* wallet.at answers with the contract; next await: contract.storage().
WalletAt(p) ==
    LET f == forge[p] IN
    /\ f.pc = "at"
    /\ forge' = [forge EXCEPT ![p] =
            [f EXCEPT !.pc = "storage",
                      !.calls = Logged(f, "wallet.at", f.params.tokenAddress,
                                       f.params.tokenAddress)]]
    /\ UNCHANGED <<permit_counter, est, ui>>

WalletAtThrows(p) ==
    /\ forge[p].pc = "at"
    /\ Throws(p, "wallet.at", forge[p].params.tokenAddress)
    /\ UNCHANGED <<permit_counter, est, ui>>

\* contract.storage() answers with the storage on chain now.
ContractStorage(p) ==
    LET f == forge[p]
        read == [permit_counter |-> permit_counter[f.params.tokenAddress]]
    IN
    /\ f.pc = "storage"
    /\ forge' = [forge EXCEPT ![p] =
            [f EXCEPT !.pc = "publicKey", !.storage = read,
                      !.calls = Logged(f, "contract.storage", f.params.tokenAddress, read)]]
    /\ UNCHANGED <<permit_counter, est, ui>>

\* contract.storage() throws and is called again.
ContractStorageThrows_retried(p) ==
    LET f == forge[p] IN
    /\ f.pc = "storage"
    /\ Cardinality({i \in 1..Len(f.calls) : f.calls[i].api = "contract.storage"}) < 2
    /\ forge' = [forge EXCEPT ![p] =
            [f EXCEPT !.calls = Append(f.calls,
                          [api |-> "contract.storage", arg |-> f.params.tokenAddress,
                           ret |-> [name |-> "RpcError", from |-> "contract.storage"],
                           ok |-> FALSE])]]
    /\ UNCHANGED <<permit_counter, est, ui>>

ContractStorageThrows(p) ==
    /\ forge[p].pc = "storage"
    /\ Throws(p, "contract.storage", forge[p].params.tokenAddress)
    /\ UNCHANGED <<permit_counter, est, ui>>

\* signer.publicKey() answers; permitParamHash encodes the call and runs to
\* await tezos.rpc.packData of the encoded value.
SignerPublicKey(p) ==
    LET f == forge[p] IN
    /\ f.pc = "publicKey"
    /\ forge' = [forge EXCEPT ![p] =
            [f EXCEPT !.pc = "packParam", !.signerKey = f.tezos.key,
                      !.calls = Logged(f, "signer.publicKey", Unset, f.tezos.key)]]
    /\ UNCHANGED <<permit_counter, est, ui>>

\* signer.publicKey() throws and the error is swallowed: the build goes on
\* without a key.
SignerPublicKeyThrows_swallowed(p) ==
    LET f == forge[p] IN
    /\ f.pc = "publicKey"
    /\ forge' = [forge EXCEPT ![p] =
            [f EXCEPT !.pc = "packParam",
                      !.calls = Append(f.calls,
                          [api |-> "signer.publicKey", arg |-> Unset,
                           ret |-> ErrorOf("signer.publicKey"), ok |-> FALSE])]]
    /\ UNCHANGED <<permit_counter, est, ui>>

SignerPublicKeyThrows(p) ==
    /\ forge[p].pc = "publicKey"
    /\ Throws(p, "signer.publicKey", Unset)
    /\ UNCHANGED <<permit_counter, est, ui>>

\* A permit counter that is not taken from the storage read.
currentPermitCount_fixed(storage) == 0

\* storage.permit_counter.toNumber()
currentPermitCount(storage) == storage.permit_counter

\* parameterSchema.Encode throws on arguments the schema cannot encode: no
\* packData call is issued.
EncodeThrows(p) ==
    /\ forge[p].pc = "packParam"
    /\ Throws(p, "schema.Encode", forge[p].transferParams)
    /\ UNCHANGED <<permit_counter, est, ui>>

\* permitParamHashData that encodes the intended leg only, not the fee leg.
permitParamHashData_intendedOnly(entrypoint, parameters) ==
    Encode(entrypoint,
        [a \in 1..Len(parameters) |->
            [i \in 1..Len(parameters[a]) |->
                [parameters[a][i] EXCEPT !.txs = <<@[1]>>]]])

\* permitParamHash: what the node is asked to pack, and the digest of its answer.
permitParamHashData(entrypoint, parameters) == Encode(entrypoint, parameters)

permitParamHash(entrypoint, parameters) ==
    blake2bHex(packData(permitParamHashData(entrypoint, parameters)).packed)

\* PackParam that goes on to pack the pair without reading the chain id, the
\* main chain's id being taken for granted.
PackParam_skipChainId(p) ==
    LET f == forge[p]
        data == permitParamHashData("transfer", f.transferParams)
        hash == blake2bHex(packData(data).packed)
    IN
    /\ f.pc = "packParam"
    /\ Packable(f.transferParams)
    /\ forge' = [forge EXCEPT ![p] =
            [f EXCEPT !.pc = "packUniques", !.paramHash = hash,
                      !.chainId = "NetMain",
                      !.unpacked = getUnpackedUniques(f.params.tokenAddress, "NetMain",
                                        f.storage.permit_counter, hash),
                      !.calls = Logged(f, "rpc.packData", data, packData(data))]]
    /\ UNCHANGED <<permit_counter, est, ui>>

\* PackParam with the permit counter hashed in with the call.
PackParam_salted(p) ==
    LET f == forge[p]
        data == permitParamHashData("transfer", f.transferParams)
    IN
    /\ f.pc = "packParam"
    /\ Packable(f.transferParams)
    /\ forge' = [forge EXCEPT ![p] =
            [f EXCEPT !.pc = "getChainId",
                      !.paramHash = blake2bHex(<<packData(data).packed,
                                                 currentPermitCount(f.storage)>>),
                      !.calls = Logged(f, "rpc.packData", data, packData(data))]]
    /\ UNCHANGED <<permit_counter, est, ui>>

\* packData answers permitParamHash; next await: tezos.rpc.getChainId().
PackParam(p) ==
    LET f == forge[p]
        data == permitParamHashData("transfer", f.transferParams)
    IN
    /\ f.pc = "packParam"
    /\ Packable(f.transferParams)
    /\ forge' = [forge EXCEPT ![p] =
            [f EXCEPT !.pc = "getChainId",
                      !.paramHash = permitParamHash("transfer", f.transferParams),
                      !.calls = Logged(f, "rpc.packData", data, packData(data))]]
    /\ UNCHANGED <<permit_counter, est, ui>>

PackParamThrows(p) ==
    /\ forge[p].pc = "packParam"
    /\ Throws(p, "rpc.packData", permitParamHashData("transfer", forge[p].transferParams))
    /\ UNCHANGED <<permit_counter, est, ui>>


\* getChainId answers; the pair is built from the storage read earlier; next
\* await: tezos.rpc.packData(unpacked).
GetChainId(p) ==
    LET f == forge[p] IN
    /\ f.pc = "getChainId"
    /\ forge' = [forge EXCEPT ![p] =
            [f EXCEPT !.pc = "packUniques", !.chainId = chainIdOf(f.tezos.rpc),
                      !.unpacked = getUnpackedUniques(f.params.tokenAddress,
                                        chainIdOf(f.tezos.rpc),
                                        currentPermitCount(f.storage), f.paramHash),
                      !.calls = Logged(f, "rpc.getChainId", Unset, chainIdOf(f.tezos.rpc))]]
    /\ UNCHANGED <<permit_counter, est, ui>>

GetChainIdThrows(p) ==
    /\ forge[p].pc = "getChainId"
    /\ Throws(p, "rpc.getChainId", Unset)
    /\ UNCHANGED <<permit_counter, est, ui>>

\* packData answers createPermitPayload, which returns
\* [signerKey, packed.packed, paramHash]; next await: tezos.signer.sign(payload).
PackUniques(p) ==
    LET f == forge[p] IN
    /\ f.pc = "packUniques"
    /\ forge' = [forge EXCEPT ![p] =
            [f EXCEPT !.pc = "sign", !.payload = packData(f.unpacked).packed,
                      !.calls = Logged(f, "rpc.packData", f.unpacked, packData(f.unpacked))]]
    /\ UNCHANGED <<permit_counter, est, ui>>

PackUniquesThrows(p) ==
    /\ forge[p].pc = "packUniques"
    /\ Throws(p, "rpc.packData", forge[p].unpacked)
    /\ UNCHANGED <<permit_counter, est, ui>>

\* What forgeTxAndParams returns: [transferParams, permitParams].
forgeResult(transferParams, pubkey, signature, hash) ==
    <<transferParams, [pubkey |-> pubkey, signature |-> signature, hash |-> hash]>>

\* sign answers; forgeTxAndParams returns: the frame is left.
SignerSign(p) ==
    LET f == forge[p]
        signature == sign(f.tezos.key, f.payload).sig
    IN
    /\ f.pc = "sign"
    /\ forge' = [forge EXCEPT ![p] =
            [Idle EXCEPT !.pc = "done", !.tezos = f.tezos, !.params = f.params,
                         !.overlapped = f.overlapped,
                         !.result = forgeResult(f.transferParams, f.signerKey,
                                                signature, f.paramHash),
                         !.calls = Logged(f, "signer.sign", f.payload, signature)]]
    /\ UNCHANGED <<permit_counter, est, ui>>

SignerSignThrows(p) ==
    /\ forge[p].pc = "sign"
    /\ Throws(p, "signer.sign", forge[p].payload)
    /\ UNCHANGED <<permit_counter, est, ui>>

\* The caller has taken the result or the error; it may call again.
Settle(p) ==
    /\ forge[p].pc \in {"done", "failed"}
    /\ forge' = [forge EXCEPT ![p] = Idle]
    /\ UNCHANGED <<permit_counter, est, ui>>

\* A permit is consumed on chain (by anybody's relayed call): the contract
\* increments its permit counter.
PermitConsumed(c) ==
    /\ permit_counter[c] < MaxCounter
    /\ permit_counter' = [permit_counter EXCEPT ![c] = @ + 1]
    /\ UNCHANGED <<forge, est, ui>>

\* A caller alone: any request of the universe, one invocation at a time.
InvokeAny(p) ==
    \E r \in Requests : Start(p, r.tezos, r.params)

\* Two builds in turn, to compare what they return: the second is called once
\* the first has returned. Both are made under one key for one token contract.
PairRequests ==
    {r \in Requests : r.tezos.key = "edpkAlice" /\ r.params.tokenAddress = "KT1TokenA"}

InvokeInTurn(p) ==
    /\ \A q \in Procs : q < p => forge[q].pc = "done"
    /\ \A q \in Procs : q > p => forge[q].pc = "idle"
    /\ \E r \in PairRequests : Start(p, r.tezos, r.params)

\* ------------------------------------------------------------- estimate

\* The frame of an invocation of estimate that has not been made. result
\* holds the returned number, once there is one.
EstIdle ==
    [pc |-> "idle", tezos |-> Unset, given |-> Unset, permitParams |-> Unset,
     estimator |-> Unset,
     permit |-> Unset, feeTransfer |-> Unset, result |-> <<>>, err |-> Unset,
     thrown |-> Unset, calls |-> <<>>]

\* What forgeTxAndParams returns for request r when the storage read gives
\* counter c, handed on to estimate with the call to relay.
permitParamsOf(r, c) ==
    LET transferParams == formTransferParams(r.tezos.pkh, RELAYER_ADDRESS, r.params)
        hash == permitParamHash("transfer", transferParams)
        payload == packData(getUnpackedUniques(r.params.tokenAddress,
                        chainIdOf(r.tezos.rpc), c, hash)).packed
    IN  [signature |-> sign(r.tezos.key, payload).sig, hash |-> hash,
         pubkey |-> r.tezos.key, contractAddress |-> r.params.tokenAddress,
         callParams |-> [entrypoint |-> "transfer", params |-> transferParams]]

\* new ReadOnlySigner(ESTIMATOR_ADDRESS, ESTIMATOR_PUBLIC_KEY)
ReadOnlySigner(pkh, pk) == [pkh |-> pkh, key |-> pk, readOnly |-> TRUE]

\* contract.methods[entrypoint](...args).toTransferParams({})
toTransferParams(contractAddress, entrypoint, value) ==
    [to |-> contractAddress, amount |-> 0,
     parameter |-> [entrypoint |-> entrypoint, value |-> value]]

\* estimateAsBatch that submits the operations last to first.
estimateAsBatch_reversed(txs) ==
    [i \in 1..Len(txs) |->
        [kind |-> "transaction", to |-> txs[Len(txs) + 1 - i].to,
         amount |-> txs[Len(txs) + 1 - i].amount,
         parameter |-> txs[Len(txs) + 1 - i].parameter]]

\* estimateAsBatch: txs.map(tParams => ({kind: OpKind.TRANSACTION, ...tParams}))
estimateAsBatch(txs) ==
    [i \in 1..Len(txs) |->
        [kind |-> "transaction", to |-> txs[i].to, amount |-> txs[i].amount,
         parameter |-> txs[i].parameter]]

\* The answers the estimation service gives to a batch: one estimate an operation.
Estimates(ops) == [1..Len(ops) -> [suggestedFeeMutez : 0..MaxFeeMutez]]

\* for (let est of estimates) totalEstimate += est.suggestedFeeMutez
RECURSIVE sumEstimates(_, _, _)
sumEstimates(estimates, i, totalEstimate) ==
    IF i > Len(estimates) THEN totalEstimate
    ELSE sumEstimates(estimates, i + 1, totalEstimate + estimates[i].suggestedFeeMutez)

EstLogged(api, arg, ret) ==
    Append(est.calls, [api |-> api, arg |-> arg, ret |-> ret, ok |-> TRUE,
                       on |-> est.estimator])

\* A failure that is caught and answered with the total so far.
EstRejected_partial(api, arg, e) ==
    [EstIdle EXCEPT !.pc = "failed", !.tezos = est.tezos, !.given = est.given,
                    !.permitParams = est.permitParams,
                    !.thrown = e, !.err = Rejection(e), !.result = <<0>>,
                    !.calls = Append(est.calls,
                        [api |-> api, arg |-> arg, ret |-> e, ok |-> FALSE,
                         on |-> est.estimator])]

\* What the caller of estimate gets when an awaited call throws e: the frame is
\* left, the promise rejects, no number is returned.
EstRejected(api, arg, e) ==
    [EstIdle EXCEPT !.pc = "failed", !.tezos = est.tezos, !.given = est.given,
                    !.permitParams = est.permitParams,
                    !.thrown = e, !.err = Rejection(e), !.result = <<>>,
                    !.calls = Append(est.calls,
                        [api |-> api, arg |-> arg, ret |-> e, ok |-> FALSE,
                         on |-> est.estimator])]

\* estimate that sets the read-only signer on the toolkit it was given and
\* estimates with that toolkit.
EstimateStart_onCaller ==
    /\ est.pc = "idle"
    /\ \E r \in Requests, c \in 0..MaxCounter :
        est' = [EstIdle EXCEPT
                    !.pc = "at", !.given = r.tezos,
                    !.tezos = [pkh |-> ESTIMATOR_ADDRESS, key |-> ESTIMATOR_PUBLIC_KEY,
                               rpc |-> r.tezos.rpc],
                    !.permitParams = permitParamsOf(r, c),
                    !.estimator = [rpc |-> r.tezos.rpc,
                                   signer |-> ReadOnlySigner(ESTIMATOR_ADDRESS,
                                                             ESTIMATOR_PUBLIC_KEY)]]
    /\ UNCHANGED <<forge, permit_counter, ui>>

\* estimate(tezos, permitParams) is called: the estimator toolkit is made for the
\* same node under the read-only signer; it runs to await estimator.contract.at.
\* given is the toolkit as it was handed in, tezos the toolkit as it is now.
EstimateStart ==
    /\ est.pc = "idle"
    /\ \E r \in Requests, c \in 0..MaxCounter :
        est' = [EstIdle EXCEPT
                    !.pc = "at", !.tezos = r.tezos, !.given = r.tezos,
                    !.permitParams = permitParamsOf(r, c),
                    !.estimator = [rpc |-> r.tezos.rpc,
                                   signer |-> ReadOnlySigner(ESTIMATOR_ADDRESS,
                                                             ESTIMATOR_PUBLIC_KEY)]]
    /\ UNCHANGED <<forge, permit_counter, ui>>

\* contract.at answers; the two calls are built; next await: estimate.batch.
EstContractAt ==
    LET pp == est.permitParams IN
    /\ est.pc = "at"
    /\ est' = [est EXCEPT
                !.pc = "batch",
                !.permit = toTransferParams(pp.contractAddress, "permit",
                                <<pp.pubkey, pp.signature, pp.hash>>),
                !.feeTransfer = toTransferParams(pp.contractAddress,
                                    pp.callParams.entrypoint,
                                    Encode(pp.callParams.entrypoint, pp.callParams.params)),
                !.calls = EstLogged("contract.at", pp.contractAddress, pp.contractAddress)]
    /\ UNCHANGED <<forge, permit_counter, ui>>

EstContractAtThrows ==
    /\ est.pc = "at"
    /\ est' = EstRejected("contract.at", est.permitParams.contractAddress,
                          ErrorOf("contract.at"))
    /\ UNCHANGED <<forge, permit_counter, ui>>

\* The contract has no such entrypoint, or its schema cannot encode the arguments.
EstMethodThrows ==
    /\ est.pc = "at"
    /\ est' = [EstRejected("schema.Encode", est.permitParams.callParams,
                           ErrorOf("schema.Encode"))
                EXCEPT !.calls = EstLogged("contract.at", est.permitParams.contractAddress,
                                           est.permitParams.contractAddress)
                                 \o <<[api |-> "schema.Encode",
                                       arg |-> est.permitParams.callParams,
                                       ret |-> ErrorOf("schema.Encode"), ok |-> FALSE,
                                       on |-> est.estimator]>>]
    /\ UNCHANGED <<forge, permit_counter, ui>>

\* A total that leaves the first estimate out.
totalOf_skipFirst(estimates) == sumEstimates(estimates, 2, 0)

\* The number estimate returns for the estimates the service answered with.
totalOf(estimates) == sumEstimates(estimates, 1, 0)

\* estimate.batch answers with the estimates; they are summed and returned.
EstBatch ==
    LET ops == estimateAsBatch(<<est.permit, est.feeTransfer>>) IN
    /\ est.pc = "batch"
    /\ \E estimates \in Estimates(ops) :
        est' = [EstIdle EXCEPT
                    !.pc = "done", !.tezos = est.tezos, !.given = est.given,
                    !.permitParams = est.permitParams,
                    !.result = <<totalOf(estimates)>>,
                    !.calls = EstLogged("estimate.batch", ops, estimates)]
    /\ UNCHANGED <<forge, permit_counter, ui>>

\* The simulation of the batch is rejected.
EstBatchThrows ==
    /\ est.pc = "batch"
    /\ est' = EstRejected("estimate.batch",
                          estimateAsBatch(<<est.permit, est.feeTransfer>>),
                          [name |-> "EstimationError", from |-> "estimate.batch"])
    /\ UNCHANGED <<forge, permit_counter, ui>>

EstSettle ==
    /\ est.pc \in {"done", "failed"}
    /\ est' = EstIdle
    /\ UNCHANGED <<forge, permit_counter, ui>>

\* ------------------------------------------------------- RevealSecret

\* const SUBMIT_ERROR_TYPE = "submit-error"
SUBMIT_ERROR_TYPE == "submit-error"

\* setTimeout(() => setSecret(null), 10 * 60_000): the delay, in milliseconds.
SecretTimeout == 10 * 60000

\* The clock of the component advances by half the delay at a time.
Tick == SecretTimeout \div 2
MaxTime == MaxTicks * Tick

\* useState<string | null>(null): the value null.
Null == "<null>"

\* The passwords a user submits, and the one the vault opens with.
Passwords == {"hunter2", "letmein"}
CorrectPassword == "hunter2"

\* What the client answers a reveal request with when it succeeds.
privateKeyOf(pkh) == IF pkh = "tz1Alice" THEN "edskAlice" ELSE "edskBob"
mnemonic == "abandon ability able about"

\* errors.password when no error is set, and the errors a request fails with.
NoError == [type |-> "", message |-> ""]
RevealErrors == {"Invalid password", "Failed to reveal"}

\* The component after its first render. calls and revealedAt are what an
\* observer records: the requests made to the client and the time the secret
\* on screen was set.
Mounted(reveal, pkh) ==
    [reveal |-> reveal, account |-> pkh, mounted |-> TRUE, secret |-> Null,
     submitting |-> FALSE, pc |-> "idle", password |-> Null, request |-> Null,
     caught |-> NoError, error |-> NoError, seedRevealed |-> FALSE,
     timers |-> {}, now |-> 0, revealedAt |-> 0, calls |-> <<>>]

\* The timeout effect without its cleanup: the timer of the secret before stays.
timeoutEffect_noCleanup(timers, old, new, now, gen) ==
    IF new = old THEN timers
    ELSE timers \cup (IF new # Null
                      THEN {[deadline |-> now + SecretTimeout, gen |-> gen]}
                      ELSE {})

\* useEffect(() => { if (secret) { const t = setTimeout(...); return () =>
\* clearTimeout(t) } }, [secret, setSecret]): the timers after a render in which
\* secret went from old to new; gen numbers the secrets set.
timeoutEffect(timers, old, new, now, gen) ==
    IF new = old THEN timers
    ELSE IF new # Null
         THEN {[deadline |-> now + SecretTimeout, gen |-> gen]}
         ELSE {}

\* The secrets set so far.
Generation(c) == Cardinality({i \in 1..Len(c.calls) : c.calls[i].ok})

\* setSecret(value) on component c, the render and the effects that follow; on
\* an unmounted component it does nothing.
setSecret(c, value) ==
    IF ~c.mounted THEN c
    ELSE [c EXCEPT !.secret = value,
                   !.timers = timeoutEffect(c.timers, c.secret, value, c.now,
                                            Generation(c)),
                   !.revealedAt = IF value # Null THEN c.now ELSE c.revealedAt]

RevealLogged(c, api, arg, ret, ok) ==
    [c EXCEPT !.calls = Append(c.calls, [api |-> api, arg |-> arg, ret |-> ret, ok |-> ok])]

\* The form is on screen (secret is null) and is submitted with a password:
\* onSubmit runs to the await of the reveal request.
onSubmit(password) ==
    LET c == revealSecret IN
    /\ c.mounted /\ c.secret = Null
    /\ ~c.submitting
    /\ Len(c.calls) < MaxSubmits
    /\ c.now + SecretTimeout <= MaxTime
    /\ revealSecret' =
            [c EXCEPT !.submitting = TRUE, !.error = NoError, !.pc = "reveal",
                      !.password = password, !.request = c.account]
    /\ UNCHANGED <<gas, history>>

\* The reveal request is answered with the secret: the vault opens with the
\* password submitted.
RevealResolves ==
    LET c == revealSecret
        api == IF c.reveal = "private-key" THEN "revealPrivateKey" ELSE "revealMnemonic"
        arg == IF c.reveal = "private-key" THEN <<c.request, c.password>>
               ELSE <<c.password>>
        scrt == IF c.reveal = "private-key" THEN privateKeyOf(c.request) ELSE mnemonic
        d == RevealLogged(c, api, arg, scrt, TRUE)
    IN
    /\ c.pc = "reveal"
    /\ c.password = CorrectPassword
    /\ revealSecret' =
            [setSecret(d, scrt) EXCEPT
                !.seedRevealed = c.seedRevealed \/ c.reveal = "seed-phrase",
                !.submitting = FALSE, !.pc = "idle"]
    /\ UNCHANGED <<gas, history>>

\* A rejected request that marks the seed phrase as revealed all the same.
RevealRejects_seedMarked ==
    LET c == revealSecret
        api == IF c.reveal = "private-key" THEN "revealPrivateKey" ELSE "revealMnemonic"
        arg == IF c.reveal = "private-key" THEN <<c.request, c.password>>
               ELSE <<c.password>>
    IN
    /\ c.pc = "reveal"
    /\ \E m \in RevealErrors :
        /\ (c.password # CorrectPassword) <=> (m = "Invalid password")
        /\ revealSecret' =
                [RevealLogged(c, api, arg, m, FALSE) EXCEPT
                    !.seedRevealed = c.seedRevealed \/ c.reveal = "seed-phrase",
                    !.caught = [type |-> "Error", message |-> m], !.pc = "delay"]
    /\ UNCHANGED <<gas, history>>

\* The reveal request is rejected, with "Invalid password" when the password is
\* not the vault's: the catch block runs to the await of the human delay.
RevealRejects ==
    LET c == revealSecret
        api == IF c.reveal = "private-key" THEN "revealPrivateKey" ELSE "revealMnemonic"
        arg == IF c.reveal = "private-key" THEN <<c.request, c.password>>
               ELSE <<c.password>>
    IN
    /\ c.pc = "reveal"
    /\ \E m \in RevealErrors :
        /\ (c.password # CorrectPassword) <=> (m = "Invalid password")
        /\ revealSecret' =
                [RevealLogged(c, api, arg, m, FALSE) EXCEPT
                    !.caught = [type |-> "Error", message |-> m], !.pc = "delay"]
    /\ UNCHANGED <<gas, history>>

\* The human delay is over: setError("password", SUBMIT_ERROR_TYPE, err.message).
HumanDelayOver ==
    LET c == revealSecret IN
    /\ c.pc = "delay"
    /\ revealSecret' =
            [c EXCEPT !.error = IF c.mounted
                                THEN [type |-> SUBMIT_ERROR_TYPE,
                                      message |-> c.caught.message]
                                ELSE c.error,
                      !.submitting = FALSE, !.pc = "idle"]
    /\ UNCHANGED <<gas, history>>

\* A timer that is due fires: setSecret(null).
TimerFires ==
    LET c == revealSecret IN
    /\ \E t \in c.timers :
        /\ t.deadline <= c.now
        /\ revealSecret' = setSecret([c EXCEPT !.timers = c.timers \ {t}], Null)
    /\ UNCHANGED <<gas, history>>

\* Another account becomes the active one: the cleanup of the account effect
\* runs, setSecret(null).
AccountChanges ==
    LET c == revealSecret IN
    /\ c.mounted
    /\ \E pkh \in Addresses \ {c.account} :
        revealSecret' = [setSecret(c, Null) EXCEPT !.account = pkh]
    /\ UNCHANGED <<gas, history>>

\* The component is unmounted: the cleanups of its effects run.
Unmount ==
    LET c == revealSecret IN
    /\ c.mounted
    /\ revealSecret' = [setSecret(c, Null) EXCEPT !.mounted = FALSE]
    /\ UNCHANGED <<gas, history>>

\* Time passes, by one tick, when no request is in flight and no timer is due.
TimePasses ==
    LET c == revealSecret IN
    /\ c.pc = "idle"
    /\ c.now + Tick <= MaxTime
    /\ \A t \in c.timers : t.deadline > c.now
    /\ revealSecret' = [c EXCEPT !.now = c.now + Tick]
    /\ UNCHANGED <<gas, history>>

\* --------------------------------------------------- OperationHistory

\* const PNDOP_EXPIRE_DELAY = 1000 * 60 * 60 * 24
PNDOP_EXPIRE_DELAY == 1000 * 60 * 60 * 24

\* The times operations carry (ISO strings, here a day of January 1970 and an
\* hour), and new Date(time).getTime(), in milliseconds.
Times == {[day |-> 1, hour |-> 0], [day |-> 1, hour |-> 12]}
getTime(time) == ((time.day - 1) * 24 + time.hour) * 3600000

\* The values Date.now() takes: 0h, 6h and 12h of the second day.
SixHours == 6 * 3600000
Nows == {getTime([day |-> 2, hour |-> 0]) + k * SixHours : k \in 0..2}

\* The operations there are: a hash with a type. An operation group has one
\* hash for operations of several types.
OpIds ==
    {[hash |-> "oo1", type |-> "transaction"], [hash |-> "oo1", type |-> "delegation"],
     [hash |-> "oo2", type |-> "transaction"]}

\* What the pending-operations store holds, and what the indexers answer with.
PndOps == {[hash |-> o.hash, kind |-> o.type, addedAt |-> t] : o \in OpIds, t \in Times}
FetchedOps ==
    {[hash |-> o.hash, type |-> o.type, status |-> "applied", time |-> t] :
        o \in OpIds, t \in Times}

\* The lists of at most n elements of S.
ListsOf(S, n) == UNION {[1..k -> S] : k \in 0..n}

\* function opKey(op) { return `${op.hash}_${op.type}` }: the pieces of the string.
opKey(op) == <<op.hash, "_", op.type>>

\* pndOps.map(op => ({...op, hash: op.hash, type: op.kind, status: "backtracked",
\* time: op.addedAt}))
pendingOperations(pndOps) ==
    [i \in 1..Len(pndOps) |->
        [hash |-> pndOps[i].hash, type |-> pndOps[i].kind, status |-> "backtracked",
         time |-> pndOps[i].addedAt]]

\* An expiry that takes an operation of exactly the delay for expired.
expired_atTheDelay(pndOp, now) == getTime(pndOp.time) + PNDOP_EXPIRE_DELAY <= now

\* new Date(pndOp.time).getTime() + PNDOP_EXPIRE_DELAY < Date.now()
expired(pndOp, now) == getTime(pndOp.time) + PNDOP_EXPIRE_DELAY < now

\* operations.some(op => opKey(op) === opKey(pndOp))
some(operations, pndOp) ==
    \E k \in 1..Len(operations) : opKey(operations[k]) = opKey(pndOp)

\* unique.every(u => opKey(u) !== opKey(op))
every(unique, op) == \A k \in 1..Len(unique) : opKey(unique[k]) # opKey(op)

\* for (const pndOp of pendingOperations) { ... }: [unique, nonUnique] after the
\* loop from element i on.
RECURSIVE pendingLoop(_, _, _, _, _, _)
pendingLoop(pending, i, operations, now, unique, nonUnique) ==
    IF i > Len(pending) THEN <<unique, nonUnique>>
    ELSE IF expired(pending[i], now) \/ some(operations, pending[i])
         THEN pendingLoop(pending, i + 1, operations, now, unique,
                          Append(nonUnique, pending[i]))
         ELSE IF every(unique, pending[i])
              THEN pendingLoop(pending, i + 1, operations, now,
                               Append(unique, pending[i]), nonUnique)
              ELSE pendingLoop(pending, i + 1, operations, now, unique, nonUnique)

\* The loop over the fetched operations without its test.
RECURSIVE operationsLoop_all(_, _, _)
operationsLoop_all(operations, i, unique) ==
    IF i > Len(operations) THEN unique
    ELSE operationsLoop_all(operations, i + 1, Append(unique, operations[i]))

\* for (const op of operations) { if (unique.every(...)) unique.push(op) }
RECURSIVE operationsLoop(_, _, _)
operationsLoop(operations, i, unique) ==
    IF i > Len(operations) THEN unique
    ELSE IF every(unique, operations[i])
         THEN operationsLoop(operations, i + 1, Append(unique, operations[i]))
         ELSE operationsLoop(operations, i + 1, unique)

\* The place of op in a list sorted from newest to oldest, after the elements
\* that are not older (a stable sort).
RECURSIVE insert(_, _)
insert(sorted, op) ==
    IF sorted = <<>> THEN <<op>>
    ELSE IF getTime(op.time) - getTime(Head(sorted).time) > 0
         THEN <<op>> \o sorted
         ELSE <<Head(sorted)>> \o insert(Tail(sorted), op)

\* unique.sort((a, b) => new Date(b.time).getTime() - new Date(a.time).getTime())
RECURSIVE sort(_, _, _)
sort(unique, i, sorted) ==
    IF i > Len(unique) THEN sorted
    ELSE sort(unique, i + 1, insert(sorted, unique[i]))

\* The useMemo of [uniqueOps, nonUniqueOps].
uniqueAndNonUnique(pending, operations, now) ==
    LET afterPending == pendingLoop(pending, 1, operations, now, <<>>, <<>>)
        unique == operationsLoop(operations, 1, afterPending[1])
    IN  <<sort(unique, 1, <<>>), afterPending[2]>>

\* A render of the component h at time h.now: the memo, then the effect that
\* hands nonUniqueOps to removePndOps when there are any. removed is what an
\* observer records: the argument of the call, computedAt the value of Date.now().
render(h) ==
    LET memo == uniqueAndNonUnique(pendingOperations(h.pndOps), h.operations, h.now) IN
    [h EXCEPT !.uniqueOps = memo[1], !.nonUniqueOps = memo[2],
              !.computedAt = h.now,
              !.called = Len(memo[2]) > 0,
              !.removed = IF Len(memo[2]) > 0 THEN memo[2] ELSE <<>>]

\* The component mounted for a store that holds pndOps and indexers that will
\* answer with server: nothing is fetched yet.
History(pndOps, server, now) ==
    render([pndOps |-> pndOps, server |-> server, operations |-> <<>>, now |-> now,
            computedAt |-> now, uniqueOps |-> <<>>, nonUniqueOps |-> <<>>,
            called |-> FALSE, removed |-> <<>>])

\* The elements of seq at the indices in S, in order.
RECURSIVE pick(_, _, _)
pick(seq, i, S) ==
    IF i > Len(seq) THEN <<>>
    ELSE IF i \in S THEN <<seq[i]>> \o pick(seq, i + 1, S)
         ELSE pick(seq, i + 1, S)

\* The indexers answer: operations is a new list and the component renders.
Fetched ==
    /\ history.pndOps # <<>> \/ history.server # <<>>
    /\ history' = render([history EXCEPT !.operations = history.server])
    /\ history # history'
    /\ UNCHANGED <<gas, revealSecret>>

\* The store of pending operations drops some of its operations, as a call of
\* removePndOps makes it do: pndOps is a new list and the component renders.
PndOpsChanged ==
    /\ \E S \in SUBSET (1..Len(history.pndOps)) :
        /\ S # 1..Len(history.pndOps)
        /\ history' = render([history EXCEPT !.pndOps = pick(history.pndOps, 1, S)])
    /\ UNCHANGED <<gas, revealSecret>>

\* Six hours pass; nothing is rendered.
HoursPass ==
    /\ history.now + SixHours \in Nows
    /\ history' = [history EXCEPT !.now = history.now + SixHours]
    /\ UNCHANGED <<gas, revealSecret>>

\* The OperationHistory component with nothing to show.
NoHistory == History(<<>>, <<>>, 0)

\* --------------------------------------------------------- specification

Init ==
    /\ forge = [p \in Procs |-> Idle]
    /\ permit_counter \in [Contracts -> 0..MaxCounter]
    /\ est = EstIdle
    /\ revealSecret = Mounted("private-key", "tz1Alice")
    /\ history = NoHistory

Step(p) ==
    \/ WalletPkh(p) \/ WalletPkhThrows(p)
    \/ WalletAt(p) \/ WalletAtThrows(p)
    \/ ContractStorage(p) \/ ContractStorageThrows(p)
    \/ SignerPublicKey(p) \/ SignerPublicKeyThrows(p)
    \/ EncodeThrows(p)
    \/ PackParam(p) \/ PackParamThrows(p)
    \/ GetChainId(p) \/ GetChainIdThrows(p)
    \/ PackUniques(p) \/ PackUniquesThrows(p)
    \/ SignerSign(p) \/ SignerSignThrows(p)
    \/ Settle(p)

Next ==
    \/ \E p \in Procs : Invoke(p) \/ Step(p)
    \/ \E c \in Contracts : PermitConsumed(c)

\* Two callers, whose invocations may overlap.
Spec == Init /\ [][Next]_vars

NextOne ==
    \/ InvokeAny(1) \/ Step(1)
    \/ \E c \in Contracts : PermitConsumed(c)

\* One caller, every request of the universe.
SpecOne == Init /\ [][NextOne]_vars

InitPair ==
    /\ forge = [p \in Procs |-> Idle]
    /\ permit_counter = [c \in Contracts |-> 0]
    /\ est = EstIdle
    /\ revealSecret = Mounted("private-key", "tz1Alice")
    /\ history = NoHistory

NextPair == \E p \in Procs : InvokeInTurn(p) \/ Step(p)

\* Two builds one after the other, every call of one account's universe.
SpecPair == InitPair /\ [][NextPair]_vars

\* One caller of the GasStation, one operation at a time: a build, or an
\* estimation.
NextGas ==
    \/ est.pc = "idle" /\ (InvokeAny(1) \/ Step(1))
    \/ \E c \in Contracts : PermitConsumed(c)
    \/ /\ forge[1].pc = "idle"
       /\ \/ EstimateStart
          \/ EstContractAt \/ EstContractAtThrows \/ EstMethodThrows
          \/ EstBatch \/ EstBatchThrows
          \/ EstSettle

SpecGas == Init /\ [][NextGas]_vars

NextEstimate ==
    \/ EstimateStart
    \/ EstContractAt \/ EstContractAtThrows \/ EstMethodThrows
    \/ EstBatch \/ EstBatchThrows
    \/ EstSettle

\* The fee estimation of permits forgeTxAndParams can return.
SpecEstimate == Init /\ [][NextEstimate]_vars


InitReveal ==
    /\ forge = [p \in Procs |-> Idle]
    /\ permit_counter = [c \in Contracts |-> 0]
    /\ est = EstIdle
    /\ revealSecret \in {Mounted(reveal, pkh) :
                            reveal \in {"private-key", "seed-phrase"}, pkh \in Addresses}
    /\ history = NoHistory

NextReveal ==
    \/ \E password \in Passwords : onSubmit(password)
    \/ RevealResolves \/ RevealRejects \/ HumanDelayOver
    \/ TimerFires
    \/ AccountChanges \/ Unmount
    \/ TimePasses

\* The RevealSecret component from its first render to its unmounting.
SpecReveal == InitReveal /\ [][NextReveal]_vars

\* Time passes and due timers fire.
SpecRevealFair == SpecReveal /\ WF_vars(TimePasses) /\ WF_vars(TimerFires)

InitHistory ==
    /\ forge = [p \in Procs |-> Idle]
    /\ permit_counter = [c \in Contracts |-> 0]
    /\ est = EstIdle
    /\ revealSecret = Mounted("private-key", "tz1Alice")
    /\ history \in {History(pndOps, server, getTime([day |-> 2, hour |-> 0])) :
                        pndOps \in ListsOf(PndOps, MaxPndOps),
                        server \in ListsOf(FetchedOps, MaxFetched)}

NextHistory == Fetched \/ PndOpsChanged \/ HoursPass

\* The OperationHistory component over the lists it is given.
SpecHistory == InitHistory /\ [][NextHistory]_vars

\* ----------------------------------------------------------- observers

\* The batch an invocation has built: the local while the invocation is in
\* flight, the first component of the result once it has returned.
BatchBuilt(f) == f.pc \in {"at", "storage", "publicKey", "packParam", "getChainId",
                           "packUniques", "sign", "done"}
BatchOf(f) == IF f.pc = "done" THEN f.result[1] ELSE f.transferParams

\* ------------------------------------------------------------------ C1

\* C1: the batch built by formTransferParams / forgeTxAndParams holds exactly
\* one entry, whose source is the initiating account and whose legs are exactly
\* two, in the order [intended leg, fee leg]: the intended leg goes to the given
\* destination with the given amount, the fee leg goes to the fixed relayer
\* address with the given relayerFee, and both carry the request's token id,
\* absent or not.
C1_BatchShape ==
    \A p \in Procs :
        LET f == forge[p]
            batch == BatchOf(f)
            entry == batch[1][1]
        IN  BatchBuilt(f) =>
            /\ Len(batch) = 1 /\ Len(batch[1]) = 1
            /\ entry.from_ = f.tezos.pkh
            /\ entry.from_ = f.calls[1].ret
            /\ Len(entry.txs) = 2
            /\ entry.txs[1] = [to_ |-> f.params.to, token_id |-> f.params.tokenId,
                               amount |-> f.params.amount]
            /\ entry.txs[2] = [to_ |-> RELAYER_ADDRESS, token_id |-> f.params.tokenId,
                               amount |-> f.params.relayerFee]
            /\ entry.txs[1].token_id = entry.txs[2].token_id

\* C1 witness: a batch has been built for a request without token id, whose
\* amount and relayer fee differ and whose destination is not the source.
C1_Witness ==
    \E p \in Procs :
        /\ forge[p].pc = "storage"
        /\ forge[p].params.tokenId = Undefined
        /\ forge[p].params.amount # forge[p].params.relayerFee
        /\ forge[p].params.to # forge[p].tezos.pkh

\* ------------------------------------------------------------------ C3

\* C3: the permit hash forgeTxAndParams returns is the digest of the packed
\* encoding of the transfer call with exactly the batch returned beside it.
C3_HashOfReturnedBatch ==
    \A p \in Procs :
        forge[p].pc = "done" =>
            forge[p].result[2].hash =
                blake2bHex(packData(Encode("transfer", forge[p].result[1])).packed)

\* C3 witness: an invocation has returned a batch with a positive relayer fee.
C3_Witness ==
    \E p \in Procs :
        /\ forge[p].pc = "done"
        /\ forge[p].result[1][1][1].txs[2].amount > 0
        /\ forge[p].result[1][1][1].txs[1].amount # forge[p].result[1][1][1].txs[2].amount

\* ----------------------------------------------------- the calls made

\* The positions in the log of an invocation of the calls of one api.
CallsTo(f, api) == {i \in 1..Len(f.calls) : f.calls[i].api = api}

\* The pair handed to the second packData call, and its fields.
PairPacked(f) == Cardinality(CallsTo(f, "rpc.packData")) = 2
PairOf(f) ==
    LET i == CHOOSE i \in CallsTo(f, "rpc.packData") :
                 \A j \in CallsTo(f, "rpc.packData") : j <= i
    IN  f.calls[i].arg
CounterIn(pair) == pair.data[3][2][2]
ChainIdIn(pair) == pair.data[2][3][2]
ContractIn(pair) == pair.data[2][2][2]
HashIn(pair) == pair.data[3][3][2]

\* The storage the invocation's own contract.storage() call answered with.
StorageRead(f) ==
    LET i == CHOOSE i \in CallsTo(f, "contract.storage") : TRUE
    IN  f.calls[i].ret

\* ------------------------------------------------------------------ C2

\* C2: in every invocation the permit counter in the packed pair is the
\* permit_counter its own storage read answered with, whatever an earlier
\* invocation read and whatever the counter on chain is by then.
C2_CounterIsTheOneRead ==
    \A p \in Procs :
        /\ forge[p].pc \in {"packUniques", "sign"} =>
              CounterIn(forge[p].unpacked)
                  = toString(StorageRead(forge[p]).permit_counter)
        /\ PairPacked(forge[p]) =>
              CounterIn(PairOf(forge[p]))
                  = toString(StorageRead(forge[p]).permit_counter)

\* C2 witness: two invocations for the same contract have returned, whose
\* storage reads answered with different counters; the later counter is in the
\* pair the one packed and the earlier counter in the pair the other packed.
C2_Witness ==
    \E p \in Procs, q \in Procs :
        /\ forge[p].pc = "done" /\ forge[q].pc = "done"
        /\ forge[p].params.tokenAddress = forge[q].params.tokenAddress
        /\ StorageRead(forge[p]).permit_counter = MaxCounter
        /\ StorageRead(forge[q]).permit_counter = 0
        /\ CounterIn(PairOf(forge[p])) = toString(MaxCounter)
        /\ CounterIn(PairOf(forge[q])) = toString(0)

\* ------------------------------------------------------------------ C4

\* C4: when a call to the signer (wallet.pkh, signer.publicKey, signer.sign)
\* throws, the invocation fails with that error and the throwing call is the
\* last call it makes: no RPC call follows it.
C4_SignerThrowEndsTheCalls ==
    \A p \in Procs : \A i \in 1..Len(forge[p].calls) :
        LET f == forge[p] IN
        (f.calls[i].api \in SignerApis /\ ~f.calls[i].ok) =>
            /\ f.pc = "failed"
            /\ f.err = f.calls[i].ret
            /\ f.err.name = "SigningError"
            /\ \A j \in 1..Len(f.calls) : j > i => f.calls[j].api \notin RpcApis
            /\ i = Len(f.calls)

\* C4 witness: signer.publicKey has thrown after the contract and its storage
\* were read.
C4_Witness ==
    \E p \in Procs :
        /\ forge[p].pc = "failed"
        /\ forge[p].err.from = "signer.publicKey"
        /\ CallsTo(forge[p], "contract.storage") # {}

\* ------------------------------------------------------------------ C7

\* The permit counter in the bytes an invocation had signed.
SignedCounter(f) ==
    LET i == CHOOSE i \in CallsTo(f, "signer.sign") : TRUE
    IN  CounterIn(f.calls[i].arg[2])

\* C7: two invocations for the same account and token contract that overlap
\* never both return a signed permit carrying the same permit counter.
C7_NoSharedCounter ==
    \A p \in Procs, q \in Procs :
        ( /\ p # q
          /\ forge[p].pc = "done" /\ forge[q].pc = "done"
          /\ forge[p].overlapped /\ forge[q].overlapped
          /\ forge[p].tezos.pkh = forge[q].tezos.pkh
          /\ forge[p].params.tokenAddress = forge[q].params.tokenAddress )
        => SignedCounter(forge[p]) # SignedCounter(forge[q])

\* ------------------------------------------------------------------ C8

\* C8: when the pair is built and handed to packData (the step that follows the
\* answer of getChainId), the counter put in the pair is the permit counter on
\* chain at that moment.
C8_CounterFreshAtPacking ==
    [][\A p \in Procs :
          GetChainId(p) =>
              CounterIn(forge'[p].unpacked)
                  = toString(permit_counter[forge[p].params.tokenAddress])]_vars

\* ------------------------------------------------------------------ C9

\* C9: when the storage read, the chain-id read or a packData call throws, the
\* invocation fails with that very error, the throwing call is its last call
\* (signer.sign is never called) and it returns no result.
C9_RpcThrowAborts ==
    \A p \in Procs : \A i \in 1..Len(forge[p].calls) :
        LET f == forge[p] IN
        ( /\ f.calls[i].api \in {"contract.storage", "rpc.getChainId", "rpc.packData"}
          /\ ~f.calls[i].ok ) =>
            /\ f.pc = "failed"
            /\ f.err = f.calls[i].ret
            /\ f.err = ErrorOf(f.calls[i].api)
            /\ i = Len(f.calls)
            /\ CallsTo(f, "signer.sign") = {}
            /\ f.result = Unset

\* C9 witness: the packData call of the pair has thrown, after every read.
C9_Witness ==
    \E p \in Procs :
        /\ forge[p].pc = "failed"
        /\ forge[p].err.from = "rpc.packData"
        /\ CallsTo(forge[p], "rpc.getChainId") # {}

\* ----------------------------------------------------------------- C10

BatchCalled == \E i \in 1..Len(est.calls) : est.calls[i].api = "estimate.batch"
BatchCall ==
    est.calls[CHOOSE i \in 1..Len(est.calls) : est.calls[i].api = "estimate.batch"]

\* C5: the number estimate returns is the fee the service suggested for the
\* permit call plus the fee it suggested for the relayed call, the two
\* operations of the batch submitted.
C5_TotalIsSumOfTheTwoFees ==
    (est.pc = "done") =>
        /\ BatchCalled /\ BatchCall.ok
        /\ Len(BatchCall.arg) = 2
        /\ BatchCall.arg[1].parameter.entrypoint = "permit"
        /\ BatchCall.arg[2].parameter.entrypoint = est.permitParams.callParams.entrypoint
        /\ est.result = <<BatchCall.ret[1].suggestedFeeMutez
                            + BatchCall.ret[2].suggestedFeeMutez>>

\* C5 witness: estimate has returned the sum of two different positive fees.
C5_Witness ==
    /\ est.pc = "done"
    /\ BatchCall.ret[1].suggestedFeeMutez = 1
    /\ BatchCall.ret[2].suggestedFeeMutez = MaxFeeMutez
    /\ est.result = <<1 + MaxFeeMutez>>

\* ------------------------------------------------------------------ C6

\* C6: when the simulation of the batch is rejected, estimate fails with that
\* one error and returns no number.
C6_RejectedBatchReturnsNothing ==
    (BatchCalled /\ ~BatchCall.ok) =>
        /\ est.pc = "failed"
        /\ est.err = BatchCall.ret
        /\ est.err.name = "EstimationError"
        /\ est.result = <<>>

\* C6 witness: the simulation of a batch built for a permit has been rejected.
C6_Witness ==
    /\ est.pc = "failed"
    /\ BatchCalled /\ ~BatchCall.ok
    /\ Len(BatchCall.arg) = 2

\* ----------------------------------------------------------------- C11

\* The fields of the call arguments in which two requests differ.
FieldsChanged(f, g) ==
    {x \in {"from", "to", "tokenId", "amount", "relayerFee"} :
        CASE x = "from" -> f.tezos.pkh # g.tezos.pkh
          [] x = "to" -> f.params.to # g.params.to
          [] x = "tokenId" -> f.params.tokenId # g.params.tokenId
          [] x = "amount" -> f.params.amount # g.params.amount
          [] OTHER -> f.params.relayerFee # g.params.relayerFee}

\* C11: two builds whose call arguments differ in a single field (source,
\* destination, token id, amount or relayer fee) return different permit hashes.
C11_OneFieldChangesTheHash ==
    \A p \in Procs, q \in Procs :
        ( /\ forge[p].pc = "done" /\ forge[q].pc = "done"
          /\ Cardinality(FieldsChanged(forge[p], forge[q])) = 1 )
        => forge[p].result[2].hash # forge[q].result[2].hash

\* C11 witness: two builds whose requests differ in the relayer fee alone have
\* returned, with different hashes.
C11_Witness ==
    /\ forge[1].pc = "done" /\ forge[2].pc = "done"
    /\ FieldsChanged(forge[1], forge[2]) = {"relayerFee"}
    /\ forge[1].result[2].hash # forge[2].result[2].hash

\* ----------------------------------------------------------------- C12

\* The calls of one api that were answered before position i of the log.
Before(f, api, i) == {j \in CallsTo(f, api) : j < i /\ f.calls[j].ok}

C13_NoRetry ==
    /\ \A p \in Procs :
          /\ \A api \in {"contract.storage", "rpc.getChainId", "signer.publicKey",
                         "signer.sign"} :
                Cardinality(CallsTo(forge[p], api)) <= 1
          /\ \A i \in 1..Len(forge[p].calls) :
                ~forge[p].calls[i].ok => (i = Len(forge[p].calls) /\ forge[p].pc = "failed")
    /\ Cardinality({i \in 1..Len(est.calls) : est.calls[i].api = "estimate.batch"}) <= 1
    /\ \A i \in 1..Len(est.calls) :
          ~est.calls[i].ok => (i = Len(est.calls) /\ est.pc = "failed")

\* C13 witness: the storage read has thrown, once, and the invocation has failed.
C13_Witness ==
    /\ forge[1].pc = "failed"
    /\ forge[1].err.from = "contract.storage"
    /\ Cardinality(CallsTo(forge[1], "contract.storage")) = 1

\* ----------------------------------------------------------------- C14

\* The call of one api an invocation made (there is one).
TheCall(f, api) == f.calls[CHOOSE i \in CallsTo(f, api) : TRUE]

\* C14: the bytes handed to signer.sign are the packing of the pair
\* ((contractAddress, chainId), (permitCounter, hash)) of the request's token
\* contract, the chain id and the counter read in this invocation and the hash
\* returned; the key returned is the one signer.publicKey answered with and the
\* signature returned is the one signer.sign answered with for those bytes.
C14_SignedBytes ==
    \A p \in Procs :
        LET f == forge[p]
            pair == [data |->
                        <<"Pair",
                          <<"Pair", <<"string", f.params.tokenAddress>>,
                                    <<"string", TheCall(f, "rpc.getChainId").ret>> >>,
                          <<"Pair", <<"int", toString(StorageRead(f).permit_counter)>>,
                                    <<"bytes", f.result[2].hash>> >> >>,
                     type |->
                        <<"pair", <<"pair", "address", "chain_id">>,
                                  <<"pair", "nat", "bytes">> >>]
        IN  f.pc = "done" =>
            /\ TheCall(f, "signer.sign").arg = <<"05", pair>>
            /\ TheCall(f, "signer.sign").arg = f.calls[7].ret.packed
            /\ f.calls[7].arg = pair
            /\ f.result[2].pubkey = TheCall(f, "signer.publicKey").ret
            /\ f.result[2].pubkey = f.tezos.key
            /\ f.result[2].signature = TheCall(f, "signer.sign").ret
            /\ f.result[2].signature = <<"sig", f.tezos.key, <<"05", pair>> >>

\* C14 witness: a permit for the contract on the test chain has been signed
\* after a positive counter was read.
C14_Witness ==
    \E p \in Procs :
        /\ forge[p].pc = "done"
        /\ forge[p].params.tokenAddress = "KT1TokenB"
        /\ ChainIdIn(PairOf(forge[p])) = "NetTest"
        /\ ContractIn(PairOf(forge[p])) = "KT1TokenB"
        /\ HashIn(PairOf(forge[p])) = forge[p].result[2].hash
        /\ StorageRead(forge[p]).permit_counter > 0

\* ----------------------------------------------------------------- C15

BatchCalls == {i \in 1..Len(est.calls) : est.calls[i].api = "estimate.batch"}

\* C15: an invocation of estimate submits one estimation request, no more, and
\* has submitted exactly one when it returns; the request is a batch of two
\* transactions to the contract given: the permit entrypoint with (pubkey,
\* signature, hash), then the entrypoint of the relayed call with its arguments.
C15_OneBatchOfTwo ==
    LET pp == est.permitParams IN
    /\ Cardinality(BatchCalls) <= 1
    /\ est.pc = "done" => Cardinality(BatchCalls) = 1
    /\ \A i \in BatchCalls :
          LET ops == est.calls[i].arg IN
          /\ Len(ops) = 2
          /\ \A k \in 1..2 : ops[k].kind = "transaction" /\ ops[k].to = pp.contractAddress
          /\ ops[1].parameter =
                [entrypoint |-> "permit", value |-> <<pp.pubkey, pp.signature, pp.hash>>]
          /\ ops[2].parameter =
                [entrypoint |-> pp.callParams.entrypoint,
                 value |-> Encode(pp.callParams.entrypoint, pp.callParams.params)]

\* C15 witness: estimate has returned after one batch for a permit of the
\* second contract was estimated.
C15_Witness ==
    /\ est.pc = "done"
    /\ Cardinality(BatchCalls) = 1
    /\ est.permitParams.contractAddress = "KT1TokenB"
    /\ BatchCall.arg[1].to = "KT1TokenB"
    /\ BatchCall.arg[1].parameter.entrypoint = "permit"
    /\ BatchCall.arg[2].parameter.entrypoint = "transfer"

\* ----------------------------------------------------------------- C16

\* C16: estimate calls neither sign nor publicKey of a signer; every call it
\* makes is made on the estimator toolkit, which has the node of the toolkit
\* given and the read-only signer of the estimator address and key; the toolkit
\* given is as it was handed in.
C16_EstimatorIdentityOnly ==
    est.pc # "idle" =>
        /\ est.tezos = est.given
        /\ est.given \in Toolkits
        /\ \A i \in 1..Len(est.calls) :
              /\ est.calls[i].api \notin SignerApis
              /\ est.calls[i].on.rpc = est.given.rpc
              /\ est.calls[i].on.signer =
                    [pkh |-> ESTIMATOR_ADDRESS, key |-> ESTIMATOR_PUBLIC_KEY,
                     readOnly |-> TRUE]
              /\ est.calls[i].on.signer.key # est.given.key

\* C16 witness: estimate has returned for a toolkit of the test node, the batch
\* having been estimated on the estimator toolkit.
C16_Witness ==
    /\ est.pc = "done"
    /\ est.given.rpc = "rpc-test"
    /\ est.given.key = "edpkBob"
    /\ BatchCall.on.rpc = "rpc-test"
    /\ BatchCall.on.signer.pkh = ESTIMATOR_ADDRESS

\* ----------------------------------------------------------------- C17

LastReveal == revealSecret.calls[Len(revealSecret.calls)]

\* C17: a secret is on screen only when the last reveal request succeeded, with
\* the password submitted, and the secret is its answer; after a request that
\* failed the secret is null and, once the catch block is through, the password
\* field has the error of the request; the seed phrase is marked as revealed
\* only when a revealMnemonic request has succeeded.
C17_SecretOnlyFromSuccessfulReveal ==
    LET c == revealSecret IN
    /\ c.secret # Null =>
          /\ Len(c.calls) > 0 /\ LastReveal.ok
          /\ LastReveal.arg[Len(LastReveal.arg)] = c.password
          /\ c.password = CorrectPassword
          /\ c.secret = LastReveal.ret
          /\ c.secret = IF LastReveal.api = "revealMnemonic" THEN mnemonic
                        ELSE privateKeyOf(LastReveal.arg[1])
    /\ (Len(c.calls) > 0 /\ ~LastReveal.ok) =>
          /\ c.secret = Null
          /\ c.pc \in {"delay", "idle", "reveal"}
          /\ (c.pc = "idle" /\ c.mounted) =>
                c.error = [type |-> "submit-error", message |-> LastReveal.ret]
    /\ c.seedRevealed =>
          \E i \in 1..Len(c.calls) : c.calls[i].ok /\ c.calls[i].api = "revealMnemonic"

\* C17 witness: a request failed and left its error on the password field, the
\* next one succeeded and the seed phrase is on screen.
C17_Witness ==
    /\ Len(revealSecret.calls) = 2
    /\ ~revealSecret.calls[1].ok
    /\ revealSecret.calls[2].ok
    /\ revealSecret.secret = mnemonic
    /\ revealSecret.seedRevealed

\* The failure of C17 seen: the password field has the error of the request.
C17_FailureSeen ==
    /\ Len(revealSecret.calls) = 1
    /\ ~LastReveal.ok
    /\ revealSecret.pc = "idle"
    /\ revealSecret.error.message = "Invalid password"
    /\ revealSecret.secret = Null

\* ----------------------------------------------------------------- C18

\* While a secret is on screen one timer is armed, the one of this secret, due
\* ten minutes after the secret was set, and no more than ten minutes have
\* passed; while no secret is on screen no timer is armed.
TimerOfTheSecret ==
    LET c == revealSecret IN
    /\ c.secret # Null =>
          /\ c.timers = {[deadline |-> c.revealedAt + 600000, gen |-> Generation(c)]}
          /\ c.now <= c.revealedAt + 600000
    /\ c.secret = Null => c.timers = {}

\* A step that changes the active account, or unmounts, ends with no secret;
\* a step in which the secret goes for another reason is the expiry of its
\* timer, ten minutes after it was set.
ClearedOnChange ==
    /\ revealSecret'.account # revealSecret.account => revealSecret'.secret = Null
    /\ ~revealSecret'.mounted => revealSecret'.secret = Null
    /\ ( /\ revealSecret.secret # Null /\ revealSecret'.secret = Null
         /\ revealSecret'.account = revealSecret.account /\ revealSecret'.mounted ) =>
          revealSecret.now = revealSecret.revealedAt + 600000

\* C18: a secret on screen has its timer, and only its timer, armed for ten
\* minutes after it was set; a change of account, an unmounting and the expiry
\* of the timer each leave no secret on screen; and a secret on screen is
\* eventually off screen.
C18_SecretIsCleared ==
    /\ []TimerOfTheSecret
    /\ [][ClearedOnChange]_vars
    /\ (revealSecret.secret # Null) ~> (revealSecret.secret = Null)

\* C18 witness: a second secret is on screen, set after the first was cleared
\* by a change of account, and the clock has reached the deadline of its timer.
C18_Witness ==
    LET c == revealSecret IN
    /\ c.secret # Null
    /\ Generation(c) = 2
    /\ c.revealedAt > 0
    /\ c.now = c.revealedAt + SecretTimeout
    /\ \E t \in c.timers : t.deadline = c.now

\* ----------------------------------------------------------------- C19

\* C19: the list shown has no two entries of one key, has the key of every
\* fetched operation, and goes from the newest entry to the oldest.
C19_UniqueOpsIsADedupedSortedList ==
    LET u == history.uniqueOps IN
    /\ \A i \in 1..Len(u), j \in 1..Len(u) :
          (u[i].hash = u[j].hash /\ u[i].type = u[j].type) => i = j
    /\ \A k \in 1..Len(history.operations) :
          \E i \in 1..Len(u) :
              /\ u[i].hash = history.operations[k].hash
              /\ u[i].type = history.operations[k].type
    /\ \A i \in 1..Len(u), j \in 1..Len(u) :
          i < j => getTime(u[i].time) >= getTime(u[j].time)

\* C19 witness: two fetched operations of one key and an older pending
\* operation of another key; the list shown has the first of the two fetched
\* operations, then the pending operation.
C19_Witness ==
    /\ Len(history.operations) = 2
    /\ opKey(history.operations[1]) = opKey(history.operations[2])
    /\ history.operations[1] # history.operations[2]
    /\ Len(history.uniqueOps) = 2
    /\ history.uniqueOps[1] = history.operations[1]
    /\ history.uniqueOps[2].status = "backtracked"
    /\ getTime(history.uniqueOps[2].time) < getTime(history.uniqueOps[1].time)

\* ----------------------------------------------------------------- C20

\* The pending operations of the last render.
Pending == pendingOperations(history.pndOps)

\* Older than 24 hours at the last render.
OlderThanADay(p) == history.computedAt - getTime(p.time) > 86400000

\* A fetched operation of the last render has the hash and the type of p.
Matched(p) ==
    \E k \in 1..Len(history.operations) :
        history.operations[k].hash = p.hash /\ history.operations[k].type = p.type

Handed(p) == history.called /\ \E k \in 1..Len(history.removed) : history.removed[k] = p

\* C20: a pending operation is handed to removePndOps exactly when it is older
\* than 24 hours or a fetched operation has its hash and type; one that is
\* neither is not handed over and the list shown has an entry of its key.
C20_RemovedIffExpiredOrFetched ==
    \A i \in 1..Len(Pending) :
        LET p == Pending[i] IN
        /\ Handed(p) <=> (OlderThanADay(p) \/ Matched(p))
        /\ ~(OlderThanADay(p) \/ Matched(p)) =>
              /\ ~Handed(p)
              /\ \E k \in 1..Len(history.uniqueOps) :
                    /\ history.uniqueOps[k].hash = p.hash
                    /\ history.uniqueOps[k].type = p.type

\* C20 witness: of two pending operations, one is exactly 24 hours old and kept,
\* the other has been fetched and is the one handed to removePndOps.
C20_Witness ==
    /\ Len(Pending) = 2
    /\ history.computedAt - getTime(Pending[1].time) = 86400000
    /\ ~Matched(Pending[1]) /\ ~Handed(Pending[1])
    /\ Matched(Pending[2]) /\ ~OlderThanADay(Pending[2])
    /\ history.removed = <<Pending[2]>>

=============================================================================
